---- MODULE Spec2Model ----
(***************************************************************************)
(* CircuitPython_2_Micropython: the bus-device guards (SPIDevice,          *)
(* I2CDevice) of ubus_device.py / bus_device.py and the PWMOut wrapper of  *)
(* pwm.py, as state machines.                                              *)
(*                                                                         *)
(* The three peripherals do not interact, so each has its own              *)
(* specification over its own variables (the others stay at their initial  *)
(* values): SpecSPI / SpecSPIFault, SpecProbe / SpecXfer, SpecPWM.         *)
(***************************************************************************)
EXTENDS Integers, Sequences, FiniteSets, TLC

VARIABLES
    \* ---- SPI -------------------------------------------------------------
    spi,        \* the shared machine.SPI bus handle: [on, baudrate, polarity, phase]
    pin,        \* pin[g]: the select line of guard g: [mode, value]
    dev,        \* dev[g]: the SPIDevice object's fields
    st,         \* st[g]: "none" | "idle" | "enter" | "held" | "exit"
    ip,         \* index of the next statement of the handler that is running
    err,        \* err[g]: the transaction body of g's with-block has raised
    seen,       \* seen[g]: how g's last finished with-block ended, for the caller
    ctor,       \* ctor[g]: the parameters the caller gave at construction
    lastInit,   \* lastInit[g]: the bus configuration g's last __enter__ left
    overlap,    \* some acquisition started while another guard was acquired
    ctorInXact, \* some guard was constructed while another guard was acquired
    \* ---- I2C -------------------------------------------------------------
    scanList,   \* what the bus's scan() returns
    i2cdev,     \* the I2CDevice object's fields (made = FALSE: no guard)
    i2cArgs,    \* the scl, sda and frequency the caller gave the constructor
    lastOp,     \* the last I2CDevice call and its arguments
    calls,      \* the bus calls that call made, in order
    inbuf,      \* the caller's in-buffer after that call
    \* ---- PWM -------------------------------------------------------------
    platform,   \* sys.platform (a sequence of characters), <<>> off MicroPython
    pwm,        \* the PWMOut object's fields (made = FALSE: none)
    pwmOp       \* the last PWMOut call, its argument and whether it raised

spiVars == <<spi, pin, dev, st, ip, err, seen, ctor, lastInit, overlap, ctorInXact>>
i2cVars == <<scanList, i2cdev, i2cArgs, lastOp, calls, inbuf>>
pwmVars == <<platform, pwm, pwmOp>>
vars == <<spiVars, i2cVars, pwmVars>>

(***************************************************************************)
(* Bounds                                                                  *)
(***************************************************************************)
NumGuards == 2
Guards == 1..NumGuards

(***************************************************************************)
(* SPI: collaborators                                                      *)
(***************************************************************************)
DefaultBaud == 100000
\* the (baudrate, polarity, phase) a caller constructs a guard with
Params == {<<DefaultBaud, 0, 0>>, <<4000000, 0, 1>>, <<4000000, 1, 0>>}

\* machine.SPI.deinit(): the bus is turned off and holds no configuration
SpiOff == [on |-> FALSE, baudrate |-> 0, polarity |-> 0, phase |-> 0]

\* machine.SPI.init(baudrate=, polarity=, phase=)
SpiInit(b, pol, pha) == [on |-> TRUE, baudrate |-> b, polarity |-> pol, phase |-> pha]

\* DigitalInOut.__init__: machine.Pin(pin, machine.Pin.IN); an undriven line
PinIn == [mode |-> "in", value |-> FALSE]

\* DigitalInOut.switch_to_output(value): self._pin.init(machine.Pin.OUT, value=value)
switch_to_output(p, value) == [mode |-> "out", value |-> value]

\* DigitalInOut.value setter: self._pin.value(val)
SetValue(p, val) == [p EXCEPT !.value = val]

\* the select line is driven low (active low)
Active(g) == pin[g].mode = "out" /\ pin[g].value = FALSE
Inactive(g) == pin[g].mode = "out" /\ pin[g].value = TRUE

(***************************************************************************)
(* SPIDevice                                                               *)
(***************************************************************************)
NoDev == [made |-> FALSE, chip_select |-> FALSE,
          baudrate |-> 0, polarity |-> 0, phase |-> 0]

NoCtor == [baudrate |-> 0, polarity |-> 0, phase |-> 0]

\* __init__: if self.chip_select: self.chip_select.switch_to_output(value=True)
InitSelect(p) == switch_to_output(p, TRUE)

\* __enter__: self.spi.init(baudrate=self.baudrate, polarity=..., phase=...)
EnterBusDefault(d) == SpiInit(DefaultBaud, 0, 0)
EnterBusKeep(d) == IF spi.on THEN spi ELSE SpiInit(d.baudrate, d.polarity, d.phase)
EnterBus(d) == SpiInit(d.baudrate, d.polarity, d.phase)

\* __enter__: if self.chip_select: self.chip_select.value = False
EnterSelect(p) == SetValue(p, FALSE)

\* __exit__: if self.chip_select: self.chip_select.value = True
ExitSelectSkip(p) == p
ExitSelect(p) == SetValue(p, TRUE)

\* the statements of __enter__ and of __exit__, in program order
EnterStepsSwapped == <<"select", "init">>
EnterSteps == <<"init", "select">>
ExitSteps == <<"deselect", "deinit">>

\* a handler (__enter__ or __exit__) is part-way through its statements
Busy == \E g \in Guards : st[g] \in {"enter", "exit"}
\* g is between the return of __enter__ and the call of __exit__
Held(g) == st[g] = "held"
SomeHeld(g) == \E h \in Guards \ {g} : st[h] \in {"held", "enter", "exit"}

InitSPIVars ==
    /\ spi \in {SpiOff, SpiInit(DefaultBaud, 0, 0)}
    /\ pin = [g \in Guards |-> PinIn]
    /\ dev = [g \in Guards |-> NoDev]
    /\ st = [g \in Guards |-> "none"]
    /\ ip = 0
    /\ err = [g \in Guards |-> FALSE]
    /\ seen = [g \in Guards |-> "none"]
    /\ ctor = [g \in Guards |-> NoCtor]
    /\ lastInit = [g \in Guards |-> SpiOff]
    /\ overlap = FALSE
    /\ ctorInXact = FALSE

\* SPIDevice(spi, chip_select=cs, baudrate=b, polarity=pol, phase=pha)
SPIDevice_init(g, cs, b, pol, pha) ==
    /\ st[g] = "none"
    /\ ~Busy
    /\ spi' = SpiOff
    /\ dev' = [dev EXCEPT ![g] = [made |-> TRUE, chip_select |-> cs,
                                  baudrate |-> b, polarity |-> pol, phase |-> pha]]
    /\ pin' = [pin EXCEPT ![g] = IF cs THEN InitSelect(pin[g]) ELSE pin[g]]
    /\ st' = [st EXCEPT ![g] = "idle"]
    /\ ctor' = [ctor EXCEPT ![g] = [baudrate |-> b, polarity |-> pol, phase |-> pha]]
    /\ ctorInXact' = (ctorInXact \/ SomeHeld(g))
    /\ UNCHANGED <<ip, err, seen, lastInit, overlap, i2cVars, pwmVars>>

\* `with guard as bus:` calls __enter__
Acquire(g) ==
    /\ st[g] = "idle"
    /\ ~Busy
    /\ st' = [st EXCEPT ![g] = "enter"]
    /\ ip' = 1
    /\ err' = [err EXCEPT ![g] = FALSE]
    /\ overlap' = (overlap \/ SomeHeld(g))
    /\ UNCHANGED <<spi, pin, dev, seen, ctor, lastInit, ctorInXact, i2cVars, pwmVars>>

\* one statement of __enter__; after the last one __enter__ returns self.spi
Enter_step(g) ==
    /\ st[g] = "enter"
    /\ LET op == EnterSteps[ip]
           last == ip = Len(EnterSteps)
       IN  /\ spi' = IF op = "init" THEN EnterBus(dev[g]) ELSE spi
           /\ lastInit' = IF op = "init"
                          THEN [lastInit EXCEPT ![g] = spi']
                          ELSE lastInit
           /\ pin' = IF op = "select" /\ dev[g].chip_select
                     THEN [pin EXCEPT ![g] = EnterSelect(pin[g])]
                     ELSE pin
           /\ st' = IF last THEN [st EXCEPT ![g] = "held"] ELSE st
           /\ ip' = IF last THEN 0 ELSE ip + 1
    /\ UNCHANGED <<dev, err, seen, ctor, overlap, ctorInXact, i2cVars, pwmVars>>

\* the transaction body raises; the with statement will still call __exit__
BodyRaises(g) ==
    /\ st[g] = "held"
    /\ ~Busy
    /\ ~err[g]
    /\ err' = [err EXCEPT ![g] = TRUE]
    /\ UNCHANGED <<spi, pin, dev, st, ip, seen, ctor, lastInit, overlap, ctorInXact, i2cVars, pwmVars>>

\* the with-block ends (normally or by the body's exception): __exit__ is called
Release(g) ==
    /\ st[g] = "held"
    /\ ~Busy
    /\ st' = [st EXCEPT ![g] = "exit"]
    /\ ip' = 1
    /\ UNCHANGED <<spi, pin, dev, err, seen, ctor, lastInit, overlap, ctorInXact, i2cVars, pwmVars>>

\* one statement of __exit__; after the last one __exit__ returns False, so a
\* pending exception of the body propagates to the caller
Exit_step(g) ==
    /\ st[g] = "exit"
    /\ LET op == ExitSteps[ip]
           last == ip = Len(ExitSteps)
       IN  /\ pin' = IF op = "deselect" /\ dev[g].chip_select
                     THEN [pin EXCEPT ![g] = ExitSelect(pin[g])]
                     ELSE pin
           /\ spi' = IF op = "deinit" THEN SpiOff ELSE spi
           /\ st' = IF last THEN [st EXCEPT ![g] = "idle"] ELSE st
           /\ ip' = IF last THEN 0 ELSE ip + 1
           /\ seen' = IF last
                      THEN [seen EXCEPT ![g] = IF err[g] THEN "body" ELSE "ok"]
                      ELSE seen
    /\ UNCHANGED <<dev, err, ctor, lastInit, overlap, ctorInXact, i2cVars, pwmVars>>

\* a statement of __enter__ raises (the bus or the pin reports an error): nothing
\* catches it, __enter__ is left and the with statement does not call __exit__
Enter_step_raises(g) ==
    /\ st[g] = "enter"
    /\ EnterSteps[ip] = "init" \/ dev[g].chip_select
    /\ st' = [st EXCEPT ![g] = "idle"]
    /\ ip' = 0
    /\ seen' = [seen EXCEPT ![g] = "enter"]
    /\ UNCHANGED <<spi, pin, dev, err, ctor, lastInit, overlap, ctorInXact, i2cVars, pwmVars>>

\* a statement of __exit__ raises: nothing catches it, the statements after it
\* do not run and the exception leaves __exit__
Exit_step_raises(g) ==
    /\ st[g] = "exit"
    /\ ExitSteps[ip] = "deinit" \/ dev[g].chip_select
    /\ st' = [st EXCEPT ![g] = "idle"]
    /\ ip' = 0
    /\ seen' = [seen EXCEPT ![g] = "teardown"]
    /\ UNCHANGED <<spi, pin, dev, err, ctor, lastInit, overlap, ctorInXact, i2cVars, pwmVars>>

(***************************************************************************)
(* I2C: collaborators and buffers                                          *)
(***************************************************************************)
BufLen == 2

\* Python's None, and a value that is not None
None == <<>>
Some(x) == <<x>>

Addrs == {16, 32}
\* machine.I2C.scan(): the responding addresses, in ascending order
ScanLists == {<<>>, <<16>>, <<32>>, <<16, 32>>}

\* the caller's buffers: distinct bytes to send, a zeroed buffer to read into
OutBuf == [i \in 1..BufLen |-> 10 + i]
InBuf0 == [i \in 1..BufLen |-> 0]
\* the k-th byte the device sends in one read
DevByte(k) == 100 + k
BufKinds == {"bytearray", "memoryview"}

Starts == 0..(BufLen + 1)
Ends == {None} \cup {Some(e) : e \in 0..(BufLen + 1)}

Min(a, b) == IF a < b THEN a ELSE b
Max(a, b) == IF a > b THEN a ELSE b

\* the bounds Python's buf[start:end] uses for a buffer of length n
SliceLo(n, start) == IF start < 0 THEN Max(n + start, 0) ELSE Min(start, n)
SliceHi(n, end) == IF end < 0 THEN Max(n + end, 0) ELSE Min(end, n)

\* buf[start:end]
PySliceFromStart(buf, start, end) == SubSeq(buf, 1, SliceHi(Len(buf), end))
PySlice(buf, start, end) ==
    SubSeq(buf, SliceLo(Len(buf), start) + 1, SliceHi(Len(buf), end))

\* if end is None: end = len(buf)
EndOrLen(buf, end) == IF end = None THEN Len(buf) ELSE end[1]

\* one call on the bus handle
ScanCall == [op |-> "scan", addr |-> 0, data |-> <<>>, n |-> 0, stop |-> FALSE]
WriteCall(addr, data, stop) ==
    [op |-> "writeto", addr |-> addr, data |-> data, n |-> Len(data), stop |-> stop]
ReadCall(addr, n, stop) ==
    [op |-> "readfrom_into", addr |-> addr, data |-> <<>>, n |-> n, stop |-> stop]
NewBusCall == [op |-> "I2C", addr |-> 0, data |-> <<>>, n |-> 0, stop |-> FALSE]

\* machine.I2C.readfrom_into(addr, buf): fills the object it is given. A slice
\* of a bytearray is a new object, a slice of a memoryview is a window on the
\* caller's buffer.
ReadFill(kind, buf, start, end) ==
    LET lo == SliceLo(Len(buf), start)
        hi == SliceHi(Len(buf), end)
    IN  IF kind = "memoryview"
        THEN [i \in 1..Len(buf) |-> IF lo < i /\ i <= hi THEN DevByte(i - lo) ELSE buf[i]]
        ELSE buf

(***************************************************************************)
(* I2CDevice                                                               *)
(***************************************************************************)
\* the bus object a guard holds: the one it was given, or one __enter__ made
GivenBus == [kind |-> "given", scl |-> None, sda |-> None, frequency |-> None]

NoI2C == [made |-> FALSE, i2c |-> GivenBus, sda |-> None, scl |-> None,
          freq |-> None, device_address |-> 0]

SclPins == {None, Some(5)}
SdaPins == {None, Some(4)}
Freqs == {None, Some(400000)}

\* the constructor's defaults: scl=None, sda=None, frequency=None
NoArgs == [scl |-> None, sda |-> None, frequency |-> None]

NoOp == [name |-> "none", raised |-> FALSE, address |-> 0, probe |-> FALSE,
         kind |-> "bytearray", start |-> 0, end |-> None, stop |-> TRUE,
         out_start |-> 0, out_end |-> None]

\* __probe_for_device: for addr in self.i2c.scan(): if addr == address: return True
RECURSIVE probe_for_device(_, _)
probe_first_only(scan, address) == scan # <<>> /\ Head(scan) = address
probe_for_device(scan, address) ==
    IF scan = <<>> THEN FALSE
    ELSE IF Head(scan) = address THEN TRUE
    ELSE probe_for_device(Tail(scan), address)

\* __init__ raises ValueError("No I2C device at address")
InitRaises(probe, scan, address) == probe /\ ~probe_for_device(scan, address)

\* the fields __init__ sets: self.sda, self.scl = (scl, sda)
NewI2C(address, scl, sda, frequency) ==
    [made |-> TRUE, i2c |-> GivenBus, sda |-> scl, scl |-> sda,
     freq |-> frequency, device_address |-> address]

InitI2CVars ==
    /\ scanList \in ScanLists
    /\ i2cdev = NoI2C
    /\ i2cArgs = NoArgs
    /\ lastOp = NoOp
    /\ calls = <<>>
    /\ inbuf = InBuf0

\* I2CDevice(i2c, address, probe, scl, sda, frequency)
I2CDevice_init(address, probe, scl, sda, frequency) ==
    /\ ~i2cdev.made
    /\ LET fails == InitRaises(probe, scanList, address)
       IN  /\ i2cdev' = IF fails THEN NoI2C ELSE NewI2C(address, scl, sda, frequency)
           /\ i2cArgs' = IF fails THEN NoArgs
                         ELSE [scl |-> scl, sda |-> sda, frequency |-> frequency]
           /\ lastOp' = [NoOp EXCEPT !.name = "init", !.raised = fails,
                                     !.address = address, !.probe = probe]
           /\ calls' = IF probe THEN <<ScanCall>> ELSE <<>>
    /\ UNCHANGED <<scanList, inbuf, spiVars, pwmVars>>

\* the bus call of readinto(buf, start=, end=, stop=)
ReadintoCall(d, buf, start, end, stop) ==
    LET e == EndOrLen(buf, end)
    IN  ReadCall(d.device_address, Len(PySlice(buf, start, e)), stop)

\* the caller's buffer after readinto(buf, start=, end=)
ReadintoBuf(kind, buf, start, end) == ReadFill(kind, buf, start, EndOrLen(buf, end))

\* the bus call of write(buf, start=, end=, stop=)
WritetoCall(d, buf, start, end, stop) ==
    WriteCall(d.device_address, PySlice(buf, start, EndOrLen(buf, end)), stop)

\* the bus calls of write_then_readinto, in order: self.write(..., stop=False)
\* then self.readinto(...), whose stop defaults to True
WriteThenReadCallsReadFirst(d, out, in, out_start, out_end, in_start, in_end) ==
    <<ReadintoCall(d, in, in_start, Some(EndOrLen(in, in_end)), TRUE),
      WritetoCall(d, out, out_start, Some(EndOrLen(out, out_end)), FALSE)>>
WriteThenReadCalls(d, out, in, out_start, out_end, in_start, in_end) ==
    <<WritetoCall(d, out, out_start, Some(EndOrLen(out, out_end)), FALSE),
      ReadintoCall(d, in, in_start, Some(EndOrLen(in, in_end)), TRUE)>>

\* guard.readinto(buf, start=start, end=end, stop=stop), buf a zeroed buffer
readinto(kind, start, end, stop) ==
    /\ i2cdev.made
    /\ calls' = <<ReadintoCall(i2cdev, InBuf0, start, end, stop)>>
    /\ inbuf' = ReadintoBuf(kind, InBuf0, start, end)
    /\ lastOp' = [NoOp EXCEPT !.name = "readinto", !.kind = kind, !.start = start,
                              !.end = end, !.stop = stop]
    /\ UNCHANGED <<scanList, i2cdev, i2cArgs, spiVars, pwmVars>>

\* guard.write(buf, start=start, end=end, stop=stop)
write(start, end, stop) ==
    /\ i2cdev.made
    /\ calls' = <<WritetoCall(i2cdev, OutBuf, start, end, stop)>>
    /\ inbuf' = InBuf0
    /\ lastOp' = [NoOp EXCEPT !.name = "write", !.start = start, !.end = end,
                              !.stop = stop]
    /\ UNCHANGED <<scanList, i2cdev, i2cArgs, spiVars, pwmVars>>

\* guard.write_then_readinto(out, in, out_start=, out_end=, in_start=, in_end=)
write_then_readinto(kind, out_start, out_end, in_start, in_end) ==
    /\ i2cdev.made
    /\ calls' = WriteThenReadCalls(i2cdev, OutBuf, InBuf0,
                                   out_start, out_end, in_start, in_end)
    /\ inbuf' = ReadintoBuf(kind, InBuf0, in_start, Some(EndOrLen(InBuf0, in_end)))
    /\ lastOp' = [NoOp EXCEPT !.name = "write_then_readinto", !.kind = kind,
                              !.start = in_start, !.end = in_end,
                              !.out_start = out_start, !.out_end = out_end]
    /\ UNCHANGED <<scanList, i2cdev, i2cArgs, spiVars, pwmVars>>

\* __enter__: with both pins known the bus object is made anew
EnterI2C(d) ==
    IF d.scl # None /\ d.sda # None
    THEN [kind |-> "created", scl |-> d.scl, sda |-> d.sda, frequency |-> d.freq]
    ELSE d.i2c

I2C_enter ==
    /\ i2cdev.made
    /\ i2cdev' = [i2cdev EXCEPT !.i2c = EnterI2C(i2cdev)]
    /\ calls' = IF i2cdev.scl # None /\ i2cdev.sda # None THEN <<NewBusCall>> ELSE <<>>
    /\ lastOp' = [NoOp EXCEPT !.name = "enter"]
    /\ UNCHANGED <<scanList, i2cArgs, inbuf, spiVars, pwmVars>>

\* __exit__: return False
I2C_exit ==
    /\ i2cdev.made
    /\ calls' = <<>>
    /\ lastOp' = [NoOp EXCEPT !.name = "exit"]
    /\ UNCHANGED <<scanList, i2cdev, i2cArgs, inbuf, spiVars, pwmVars>>

(***************************************************************************)
(* PWMOut                                                                  *)
(***************************************************************************)
\* sys.platform, and MICROPY (False where RPi.GPIO imports)
ESP8266 == [micropy |-> TRUE, name |-> <<"e", "s", "p", "8", "2", "6", "6">>]
ESP32 == [micropy |-> TRUE, name |-> <<"e", "s", "p", "3", "2">>]
PYBOARD == [micropy |-> TRUE, name |-> <<"p", "y", "b", "o", "a", "r", "d">>]
RPI == [micropy |-> FALSE, name |-> <<"l", "i", "n", "u", "x">>]
Platforms == {ESP8266, ESP32, PYBOARD, RPI}

MaxFreqESP8266 == 1000
MaxFreqESP32 == 40000000
MaxDuty == 65535
MaxHwDuty == 1023

PwmFreqs == {-1, 0, 1, 500, MaxFreqESP8266, MaxFreqESP8266 + 1,
             MaxFreqESP32, MaxFreqESP32 + 1}
Duties == {0, 32768, MaxDuty, 70000}

\* str.startswith
startswith(s, prefix) ==
    Len(s) >= Len(prefix) /\ SubSeq(s, 1, Len(prefix)) = prefix

\* if platform.startswith('esp82') and freq < 1 or freq > 1000: raise ValueError
\* if platform.startswith('esp32') and freq < 1 or freq > 40000000: raise ValueError
\* (`and` binds tighter than `or`)
InitFreqRaises(plat, freq) ==
    plat.micropy /\
    (\/ (startswith(plat.name, <<"e", "s", "p", "8", "2">>) /\ freq < 1)
        \/ freq > MaxFreqESP8266
     \/ (startswith(plat.name, <<"e", "s", "p", "3", "2">>) /\ freq < 1)
        \/ freq > MaxFreqESP32)

\* int(duty_cycle * 1023 / 65535)
HwDuty(duty_cycle) == (duty_cycle * MaxHwDuty) \div MaxDuty

NoPWM == [made |-> FALSE, frequency |-> 0, duty_cycle |-> 0, hw_freq |-> 0, hw_duty |-> 0]
NoPwmOp == [name |-> "none", arg |-> 0, raised |-> FALSE]

InitPWMVars ==
    /\ platform \in Platforms
    /\ pwm = NoPWM
    /\ pwmOp = NoPwmOp

\* PWMOut(pin, freq, duty_cycle), freq and duty_cycle integers (int(freq) = freq)
PWMOut_init(freq, duty_cycle) ==
    /\ ~pwm.made
    /\ LET fails == InitFreqRaises(platform, freq)
       IN  /\ pwm' = IF fails THEN NoPWM
                     ELSE [made |-> TRUE, frequency |-> freq, duty_cycle |-> duty_cycle,
                           hw_freq |-> freq,
                           hw_duty |-> IF platform.micropy THEN HwDuty(duty_cycle)
                                       ELSE duty_cycle]
           /\ pwmOp' = [name |-> "init", arg |-> freq, raised |-> fails]
    /\ UNCHANGED <<platform, spiVars, i2cVars>>

\* the frequency property's getter
frequency(p) == p.frequency

\* the frequency property's setter
PWMOut_set_frequency(freq) ==
    /\ pwm.made
    /\ LET fails == platform.micropy /\ (freq < 1 \/ freq > MaxFreqESP8266)
       IN  /\ pwm' = IF fails THEN pwm
                     ELSE [pwm EXCEPT !.frequency = freq, !.hw_freq = freq]
           /\ pwmOp' = [name |-> "set_frequency", arg |-> freq, raised |-> fails]
    /\ UNCHANGED <<platform, spiVars, i2cVars>>

\* the duty_cycle property's setter: val = max(0, min(65535, int(val)))
PWMOut_set_duty_cycle(val) ==
    /\ pwm.made
    /\ LET v == Max(0, Min(MaxDuty, val))
       IN  pwm' = [pwm EXCEPT !.duty_cycle = v,
                              !.hw_duty = IF platform.micropy THEN HwDuty(v) ELSE v]
    /\ pwmOp' = [name |-> "set_duty_cycle", arg |-> val, raised |-> FALSE]
    /\ UNCHANGED <<platform, spiVars, i2cVars>>

\* __del__: deinit() and the fields are deleted
PWMOut_del ==
    /\ pwm.made
    /\ pwm' = NoPWM
    /\ pwmOp' = [name |-> "del", arg |-> 0, raised |-> FALSE]
    /\ UNCHANGED <<platform, spiVars, i2cVars>>

(***************************************************************************)
(* Specifications                                                          *)
(***************************************************************************)
\* the peripherals a specification does not exercise
SPIUnused ==
    /\ spi = SpiOff
    /\ pin = [g \in Guards |-> PinIn]
    /\ dev = [g \in Guards |-> NoDev]
    /\ st = [g \in Guards |-> "none"]
    /\ ip = 0
    /\ err = [g \in Guards |-> FALSE]
    /\ seen = [g \in Guards |-> "none"]
    /\ ctor = [g \in Guards |-> NoCtor]
    /\ lastInit = [g \in Guards |-> SpiOff]
    /\ overlap = FALSE
    /\ ctorInXact = FALSE

I2CUnused ==
    /\ scanList = <<>>
    /\ i2cdev = NoI2C
    /\ i2cArgs = NoArgs
    /\ lastOp = NoOp
    /\ calls = <<>>
    /\ inbuf = InBuf0

PWMUnused ==
    /\ platform = RPI
    /\ pwm = NoPWM
    /\ pwmOp = NoPwmOp

\* ---- SPI guards sharing one bus; the bus and the pins never fail ---------
InitSPI == InitSPIVars /\ I2CUnused /\ PWMUnused

NextSPI ==
    \/ \E g \in Guards, cs \in BOOLEAN, p \in Params :
          SPIDevice_init(g, cs, p[1], p[2], p[3])
    \/ \E g \in Guards : Acquire(g)
    \/ \E g \in Guards : Enter_step(g)
    \/ \E g \in Guards : BodyRaises(g)
    \/ \E g \in Guards : Release(g)
    \/ \E g \in Guards : Exit_step(g)

SpecSPI == InitSPI /\ [][NextSPI]_vars

\* ---- the same, and a call on the bus or on a pin may raise ---------------
NextSPIFault ==
    \/ NextSPI
    \/ \E g \in Guards : Enter_step_raises(g)
    \/ \E g \in Guards : Exit_step_raises(g)

SpecSPIFault == InitSPI /\ [][NextSPIFault]_vars

\* ---- one I2C guard: construction, probing, acquisition -------------------
InitProbe == InitI2CVars /\ SPIUnused /\ PWMUnused

NextProbe ==
    \/ \E a \in Addrs, probe \in BOOLEAN, scl \in SclPins, sda \in SdaPins, f \in Freqs :
          I2CDevice_init(a, probe, scl, sda, f)
    \/ \E k \in BufKinds : readinto(k, 0, None, TRUE)
    \/ write(0, None, TRUE)
    \/ \E k \in BufKinds : write_then_readinto(k, 0, None, 0, None)
    \/ I2C_enter
    \/ I2C_exit

SpecProbe == InitProbe /\ [][NextProbe]_vars

\* ---- one I2C guard, constructed without probing: transfers ---------------
InitXfer ==
    /\ scanList = <<>>
    /\ \E a \in Addrs : i2cdev = NewI2C(a, None, None, None)
    /\ i2cArgs = NoArgs
    /\ lastOp = NoOp
    /\ calls = <<>>
    /\ inbuf = InBuf0
    /\ SPIUnused /\ PWMUnused

NextXfer ==
    \/ \E k \in BufKinds, s \in Starts, e \in Ends, stop \in BOOLEAN :
          readinto(k, s, e, stop)
    \/ \E s \in Starts, e \in Ends, stop \in BOOLEAN : write(s, e, stop)
    \/ \E k \in BufKinds, os \in Starts, oe \in Ends, is \in Starts, ie \in Ends :
          write_then_readinto(k, os, oe, is, ie)
    \/ I2C_enter
    \/ I2C_exit

SpecXfer == InitXfer /\ [][NextXfer]_vars

\* ---- one PWMOut on each platform -----------------------------------------
InitPWM == InitPWMVars /\ SPIUnused /\ I2CUnused

NextPWM ==
    \/ \E f \in PwmFreqs, d \in Duties : PWMOut_init(f, d)
    \/ \E f \in PwmFreqs : PWMOut_set_frequency(f)
    \/ \E d \in Duties : PWMOut_set_duty_cycle(d)
    \/ PWMOut_del

SpecPWM == InitPWM /\ [][NextPWM]_vars

(***************************************************************************)
(* Properties of the SPI guard                                             *)
(***************************************************************************)
\* the bus configuration guard g was constructed for
CtorCfg(g) == SpiInit(ctor[g].baudrate, ctor[g].polarity, ctor[g].phase)

\* no acquisition overlapped another, and no guard was constructed in one
Serial == ~overlap
SerialCtor == ~overlap /\ ~ctorInXact

\* C1: a guard's select line is inactive (True) once the guard is constructed,
\* active (False) while the guard is acquired and inactive again after every
\* release, also when the transaction body raised; no select line is active
\* outside its guard's acquire..release interval.
C1_SelectLine ==
    \A g \in Guards :
        /\ Active(g) => dev[g].made /\ dev[g].chip_select
                        /\ st[g] \in {"enter", "held", "exit"}
        /\ dev[g].made /\ dev[g].chip_select =>
              /\ st[g] = "idle" => Inactive(g)
              /\ st[g] = "held" => Active(g)

\* a guard with a select line was released after its body raised
C1_Witness ==
    \E g \in Guards :
        /\ dev[g].chip_select /\ st[g] = "idle"
        /\ seen[g] = "body" /\ err[g] /\ Inactive(g)

\* C2 as claimed: if acquisitions never overlap, then while a guard is
\* acquired the bus carries that guard's configuration and no other guard's
\* select line is active.
C2_Exclusive ==
    Serial =>
        \A g \in Guards : Held(g) =>
            /\ spi = CtorCfg(g)
            /\ \A h \in Guards \ {g} : ~Active(h)

\* C2 amended: the same, if moreover no guard is constructed on the bus while
\* another guard is acquired (construction deinitializes the shared bus).
C2_ExclusiveSerialCtor ==
    SerialCtor =>
        \A g \in Guards : Held(g) =>
            /\ spi = CtorCfg(g)
            /\ \A h \in Guards \ {g} : ~Active(h)

\* g is acquired after h, which has a select line and other parameters,
\* finished a transaction; nothing overlapped
C2_Witness ==
    \E g \in Guards : \E h \in Guards \ {g} :
        /\ SerialCtor /\ Held(g)
        /\ st[h] = "idle" /\ seen[h] \in {"ok", "body"}
        /\ dev[h].chip_select /\ dev[g].chip_select
        /\ ctor[h] # ctor[g]

\* C3 as claimed: __exit__ never raises; when it returns after a failed
\* transaction body the select line is inactive, the bus is deinitialized and
\* the caller sees the body's error.
C3_ReleaseNeverRaises ==
    [][\A g \in Guards :
          (st[g] = "exit" /\ st'[g] = "idle") =>
              /\ seen'[g] # "teardown"
              /\ err[g] => /\ seen'[g] = "body"
                           /\ ~Active(g)'
                           /\ ~spi'.on]_vars

C9_SameConfig ==
    \A g \in Guards :
        (st[g] \in {"held", "exit"} \/ seen[g] \in {"ok", "body"}) =>
            lastInit[g] = CtorCfg(g)

\* g is acquired again after a finished transaction of its own and one of a
\* guard with other parameters
C9_Witness ==
    \E g \in Guards : \E h \in Guards \ {g} :
        /\ Held(g) /\ seen[g] \in {"ok", "body"}
        /\ seen[h] \in {"ok", "body"} /\ ctor[h] # ctor[g]
        /\ lastInit[h] = CtorCfg(h)

(***************************************************************************)
(* Properties of the I2C guard                                             *)
(***************************************************************************)
\* address is one of the addresses scan() returned
InScan(address) == \E i \in 1..Len(scanList) : scanList[i] = address

\* the number of scan() calls among the bus calls of the last operation
NumScans == Cardinality({i \in 1..Len(calls) : calls[i].op = "scan"})

\* C4: with probe=True construction succeeds exactly when the address is in
\* the bus's scan result, and otherwise raises and leaves no guard; with
\* probe=False it never scans and always succeeds; reads, writes, acquisition
\* and release never scan.
C4_Probe ==
    /\ lastOp.name = "init" =>
          /\ lastOp.raised <=> (lastOp.probe /\ ~InScan(lastOp.address))
          /\ i2cdev.made <=> ~lastOp.raised
          /\ i2cdev.made => i2cdev.device_address = lastOp.address
          /\ NumScans = IF lastOp.probe THEN 1 ELSE 0
    /\ lastOp.name \in {"readinto", "write", "write_then_readinto", "enter", "exit"} =>
          NumScans = 0

\* scan() returned 0x10 and 0x20, and 0x20 was probed and found
C4_Witness ==
    /\ lastOp.name = "init" /\ lastOp.probe /\ lastOp.address = 32
    /\ scanList = <<16, 32>>
    /\ i2cdev.made

\* the range a call names lies inside a buffer of length n
InRange(n, start, end) ==
    /\ 0 <= start
    /\ start <= (IF end = None THEN n ELSE end[1])
    /\ (IF end = None THEN n ELSE end[1]) <= n

\* C5: write_then_readinto makes exactly two bus calls: a write to the device
\* address with stop=False, then a read from the same address; no other bus
\* call and no re-creation of the bus comes between them.
C5_WriteThenRead ==
    lastOp.name = "write_then_readinto" =>
        /\ Len(calls) = 2
        /\ calls[1].op = "writeto" /\ calls[1].addr = i2cdev.device_address
        /\ calls[1].stop = FALSE
        /\ calls[2].op = "readfrom_into" /\ calls[2].addr = i2cdev.device_address

\* one byte written, then two bytes read
C5_Witness ==
    /\ lastOp.name = "write_then_readinto"
    /\ Len(calls) = 2 /\ calls[1].n = 1 /\ calls[2].n = 2

\* C6: for 0 <= start <= end <= len(buf), write(buf, start, end) sends to the
\* device address exactly buf[start], ..., buf[end-1] in order (end = len(buf)
\* when omitted), and so never the whole buffer for a proper sub-range.
C6_WriteSlice ==
    (lastOp.name = "write" /\ InRange(Len(OutBuf), lastOp.start, lastOp.end)) =>
        LET e == IF lastOp.end = None THEN Len(OutBuf) ELSE lastOp.end[1]
        IN  /\ Len(calls) = 1
            /\ calls[1].op = "writeto" /\ calls[1].addr = i2cdev.device_address
            /\ calls[1].data = [i \in 1..(e - lastOp.start) |-> OutBuf[lastOp.start + i]]
            /\ e - lastOp.start < Len(OutBuf) => calls[1].data # OutBuf

\* a proper sub-range that starts after the first byte was written
C6_Witness ==
    /\ lastOp.name = "write" /\ lastOp.start = 1 /\ lastOp.end = Some(2)
    /\ Len(calls) = 1 /\ calls[1].data = <<OutBuf[2]>>

\* C7 as claimed: for 0 <= start <= end <= len(buf), readinto and
\* write_then_readinto leave the received bytes in positions start..end-1 of
\* the caller's buffer and every other position unchanged.
C7_ReadInPlace ==
    (/\ lastOp.name \in {"readinto", "write_then_readinto"}
     /\ InRange(Len(InBuf0), lastOp.start, lastOp.end)) =>
        LET e == IF lastOp.end = None THEN Len(InBuf0) ELSE lastOp.end[1]
        IN  inbuf = [i \in 1..Len(InBuf0) |->
                        IF lastOp.start < i /\ i <= e
                        THEN DevByte(i - lastOp.start) ELSE InBuf0[i]]

(***************************************************************************)
(* Properties of PWMOut                                                    *)
(***************************************************************************)
\* the frequency range the error message of each platform states
StatedMaxFreq(plat) == IF plat = ESP8266 THEN MaxFreqESP8266 ELSE MaxFreqESP32

\* C10 as claimed: on esp8266 and esp32 construction raises exactly when the
\* frequency is outside the platform's stated range, and an accepted
\* frequency is what the frequency property reports.
C10_FreqRange ==
    (pwmOp.name = "init" /\ platform \in {ESP8266, ESP32}) =>
        /\ pwmOp.raised <=> (pwmOp.arg < 1 \/ pwmOp.arg > StatedMaxFreq(platform))
        /\ ~pwmOp.raised => (pwm.made /\ frequency(pwm) = pwmOp.arg)

(***************************************************************************)
(* Properties of the I2C guard's acquisition                               *)
(***************************************************************************)
\* C11 as claimed: __enter__ of a guard constructed with both scl and sda makes
\* a new bus object whose clock line is the pin passed as scl and whose data
\* line is the pin passed as sda, with the frequency passed (if any); with a
\* pin missing it leaves the guard's bus handle as it was; __exit__ changes
\* nothing.
C11_EnterPins ==
    [][/\ lastOp'.name = "enter" =>
            IF i2cArgs.scl # None /\ i2cArgs.sda # None
            THEN i2cdev'.i2c = [kind |-> "created", scl |-> i2cArgs.scl,
                                sda |-> i2cArgs.sda, frequency |-> i2cArgs.frequency]
            ELSE i2cdev'.i2c = i2cdev.i2c
       /\ lastOp'.name = "exit" => UNCHANGED <<i2cdev, i2cArgs, scanList, inbuf>>]_vars

====
